---------------------------- MODULE Spec2Model ----------------------------
(***************************************************************************)
(* Model of the operators of photogrammetry_addon.py.                      *)
(*                                                                         *)
(* Numbers.  The add-on computes with floating-point vectors and unit      *)
(* quaternions.  The model computes exactly, on an integer grid:           *)
(*   - a vertex normal is an integer vector of length 3 grid steps;        *)
(*   - a direction (the result of a normalisation) is the primitive        *)
(*     integer vector on its ray (CanonV);                                 *)
(*   - a rotation is the primitive integer quaternion q on the ray of the  *)
(*     unit quaternion q/|q| (CanonQ); q and -q are different values, as   *)
(*     they are in the program.                                            *)
(* Euler angles are multiples of 90 degrees, and the inputs are those for  *)
(* which the transformed normal has an integer length, so that every       *)
(* quaternion the program computes lies on the grid.  An object's world    *)
(* matrix is that of its own rotation and scale (no parent).               *)
(***************************************************************************)
EXTENDS Integers, Sequences, FiniteSets, TLC

\* ----------------------------------------------------------------- bounds
\* Largest number of vertices of a mesh.
MaxVerts == 3
\* Largest number of calls of one operator in a behaviour.
MaxRuns == 2
\* The spec's epsilon, in grid steps (spec.md 4.1 step 3).
EpsGrid == 2

\* ------------------------------------------------------- integer helpers
Abs(a) == IF a < 0 THEN -a ELSE a

RECURSIVE Gcd(_, _)
Gcd(a, b) == IF b = 0 THEN a ELSE Gcd(b, a % b)

Gcd3(v) == Gcd(Gcd(Abs(v[1]), Abs(v[2])), Abs(v[3]))

Gcd4(q) == Gcd(Gcd(Gcd(Abs(q[1]), Abs(q[2])), Abs(q[3])), Abs(q[4]))

IsSquare(n) == \E r \in 0..n : r * r = n

Isqrt(n) == CHOOSE r \in 0..n : r * r = n

\* ---------------------------------------------------------------- vectors
ZeroVec == <<0, 0, 0>>

UpVec == <<0, 0, 1>>

VAdd(a, b) == <<a[1] + b[1], a[2] + b[2], a[3] + b[3]>>

Dot(a, b) == a[1] * b[1] + a[2] * b[2] + a[3] * b[3]

Cross(a, b) ==
    <<a[2] * b[3] - a[3] * b[2], a[3] * b[1] - a[1] * b[3], a[1] * b[2] - a[2] * b[1]>>

Len2(v) == Dot(v, v)

\* The unit vector of v, as the primitive vector on v's ray.
CanonV(v) ==
    IF v = ZeroVec THEN v
    ELSE LET g == Gcd3(v) IN <<v[1] \div g, v[2] \div g, v[3] \div g>>

\* ------------------------------------------------------------ quaternions
IdentityQuat == <<1, 0, 0, 0>>

NoQuat == <<0, 0, 0, 0>>

\* The unit quaternion of q, as the primitive quaternion on q's ray.
CanonQ(q) ==
    IF q = NoQuat THEN q
    ELSE LET g == Gcd4(q) IN <<q[1] \div g, q[2] \div g, q[3] \div g, q[4] \div g>>

\* Quaternion @ Quaternion: the Hamilton product.
QMul(a, b) ==
    << a[1] * b[1] - a[2] * b[2] - a[3] * b[3] - a[4] * b[4],
       a[1] * b[2] + a[2] * b[1] + a[3] * b[4] - a[4] * b[3],
       a[1] * b[3] - a[2] * b[4] + a[3] * b[1] + a[4] * b[2],
       a[1] * b[4] + a[2] * b[3] - a[3] * b[2] + a[4] * b[1] >>

QConj(q) == <<q[1], -q[2], -q[3], -q[4]>>

\* The direction of v rotated by q: the vector part of q (0,v) q*, which is
\* |q|^2 times the rotated vector.
QRot(q, v) ==
    LET p == QMul(QMul(q, <<0, v[1], v[2], v[3]>>), QConj(q))
    IN  CanonV(<<p[2], p[3], p[4]>>)


\* The vector part of q (0,v) q*, not reduced: |q|^2 times v rotated by q.
QRotRaw(q, v) ==
    LET p == QMul(QMul(q, <<0, v[1], v[2], v[3]>>), QConj(q))
    IN  <<p[2], p[3], p[4]>>

VScale(k, v) == <<k * v[1], k * v[2], k * v[3]>>

Sign(a) == IF a < 0 THEN -1 ELSE IF a > 0 THEN 1 ELSE 0

\* ------------------------------------------------------------------ state
VARIABLES
    vertices,             \* object.data.vertices: sequence of [normal, select]
    scale,                \* object.scale
    rotation_mode,        \* object.rotation_mode
    rotation_euler,       \* object.rotation_euler, in quarter turns
    rotation_quaternion,  \* object.rotation_quaternion
    rot,                  \* the local rot of the last execute (NoQuat: none)
    context_mode,         \* bpy.context.mode
    vertex_count,         \* len(object.data.vertices) of the active object
    uv_projections,       \* number of runs of bpy.ops.uv.smart_project
    objects,              \* the objects of the scene (ids in scene order)
    selected,             \* the selected objects
    active_object,        \* context.active_object (NoObject: None)
    material_slots,       \* object -> sequence of materials
    active_material_index,\* object -> index of its active slot (from 0)
    materials,            \* bpy.data.materials
    images,               \* bpy.data.images
    base_color,           \* links (image, material) into a Base Color input
    modifiers,            \* object -> sequence of modifiers
    applied,              \* object -> sequence of the modifiers applied to its mesh
    display_type,         \* object -> display type
    first_call,           \* CubeCutOperator.first_call of the last call
    result,               \* what the last call of an operator returned or raised
    runs                  \* number of operator calls so far

orientVars ==
    <<vertices, scale, rotation_mode, rotation_euler, rotation_quaternion, rot>>

uvVars == <<vertex_count, uv_projections>>

sceneVars == <<objects, selected, active_object>>

bakeVars == <<material_slots, active_material_index, materials, images, base_color>>

cutVars == <<modifiers, applied, display_type, first_call>>

vars == <<orientVars, context_mode, uvVars, sceneVars, bakeVars, cutVars, result, runs>>

\* context.active_object is None
NoObject == 0

\* ------------------------------------------------------ host: edit mode
\* bpy.ops.object.mode_set(mode=m)
mode_set(m) == m

\* bpy.ops.object.editmode_toggle()
editmode_toggle(m) == IF m = "EDIT" THEN "OBJECT" ELSE "EDIT"

\* ------------------------------------------- host: rotations of an object
\* cos and sin of half of k quarter turns, both times sqrt(2) when k is odd
\* and both times 1 when k is even.
HalfCos(k) == CASE k = 0 -> 1 [] k = 1 -> 1 [] k = 2 -> 0 [] k = 3 -> -1

HalfSin(k) == CASE k = 0 -> 0 [] k = 1 -> 1 [] k = 2 -> 1 [] k = 3 -> 1

\* eul_to_quat (XYZ order).  Every term is a product of one factor per axis,
\* so all four components carry the same positive factor.
EulToQuat(eul) ==
    LET ci == HalfCos(eul[1])
        cj == HalfCos(eul[2])
        ch == HalfCos(eul[3])
        si == HalfSin(eul[1])
        sj == HalfSin(eul[2])
        sh == HalfSin(eul[3])
        cc == ci * ch
        cs == ci * sh
        sc == si * ch
        ss == si * sh
    IN  CanonQ(<< cj * cc + sj * ss,
                  cj * sc - sj * cs,
                  cj * ss + sj * cc,
                  cj * cs - sj * sc >>)

\* A quarter turn about the x, y and z axis.
RotX(v) == <<v[1], -v[3], v[2]>>

RotY(v) == <<v[3], v[2], -v[1]>>

RotZ(v) == <<-v[2], v[1], v[3]>>

RECURSIVE Turn(_, _, _)
Turn(axis, k, v) ==
    IF k = 0 THEN v
    ELSE Turn(axis, k - 1,
              CASE axis = 1 -> RotX(v) [] axis = 2 -> RotY(v) [] axis = 3 -> RotZ(v))

\* eul_to_mat3 (XYZ order) applied to v: about x first, then y, then z.
EulRot(eul, v) == Turn(3, eul[3], Turn(2, eul[2], Turn(1, eul[1], v)))

\* The rotation part of the object's matrix applied to v, times a positive
\* factor: the object's matrix is built from the representation its
\* rotation_mode names.
ObjRotRaw(mode, eul, quat, v) ==
    IF mode = "QUATERNION" THEN QRotRaw(quat, v) ELSE EulRot(eul, v)

\* object.matrix_world.to_3x3(), as its three columns, times a positive
\* factor: rotation times scale.
matrix_world(mode, eul, quat, scl) ==
    << VScale(scl[1], ObjRotRaw(mode, eul, quat, <<1, 0, 0>>)),
       VScale(scl[2], ObjRotRaw(mode, eul, quat, <<0, 1, 0>>)),
       VScale(scl[3], ObjRotRaw(mode, eul, quat, <<0, 0, 1>>)) >>

Det(m) == Dot(m[1], Cross(m[2], m[3]))

\* Matrix (columns m) times vector.
MatVec(m, v) == VAdd(VAdd(VScale(v[1], m[1]), VScale(v[2], m[2])), VScale(v[3], m[3]))

\* m.inverted().transposed(), as columns, times |det m|: the cofactor matrix
\* with the sign of the determinant.
InvertedTransposed(m) ==
    << VScale(Sign(Det(m)), Cross(m[2], m[3])),
       VScale(Sign(Det(m)), Cross(m[3], m[1])),
       VScale(Sign(Det(m)), Cross(m[1], m[2])) >>


\* ------------------------------------------------ host: mathutils.Vector
\* axis_dominant_v3_single: the axis of the largest absolute component.
AxisDominant(v) ==
    IF Abs(v[1]) > Abs(v[2])
    THEN (IF Abs(v[1]) > Abs(v[3]) THEN 1 ELSE 3)
    ELSE (IF Abs(v[2]) > Abs(v[3]) THEN 2 ELSE 3)

\* ortho_v3_v3: some vector perpendicular to v.
Ortho(v) ==
    CASE AxisDominant(v) = 1 -> <<-v[2] - v[3], v[1], v[1]>>
      [] AxisDominant(v) = 2 -> <<v[2], -v[1] - v[3], v[2]>>
      [] AxisDominant(v) = 3 -> <<v[3], v[3], -v[1] - v[2]>>

\* rotation_difference without the cases of parallel vectors: a zero axis gives
\* the identity, whichever way the vectors point.
rotation_difference_no_opposed(a, b) ==
    LET ua == CanonV(a)
        ub == CanonV(b)
        axis == Cross(ua, ub)
    IN  IF axis # ZeroVec
        THEN CanonQ(<<Isqrt(Len2(ua)) * Isqrt(Len2(ub)) + Dot(ua, ub),
                      axis[1], axis[2], axis[3]>>)
        ELSE IdentityQuat

\* Vector.rotation_difference(other): both vectors are normalised; the
\* quaternion of the shortest arc from a to b, (cos t/2, sin t/2 * axis), is on
\* the ray of (|a||b| + a.b, a x b).  Parallel vectors give the identity and
\* opposed vectors a half turn about Ortho(a).
rotation_difference(a, b) ==
    LET ua == CanonV(a)
        ub == CanonV(b)
        axis == Cross(ua, ub)
    IN  IF axis # ZeroVec
        THEN CanonQ(<<Isqrt(Len2(ua)) * Isqrt(Len2(ub)) + Dot(ua, ub),
                      axis[1], axis[2], axis[3]>>)
        ELSE IF Dot(ua, ub) > 0
        THEN IdentityQuat
        ELSE LET o == Ortho(ua) IN CanonQ(<<0, o[1], o[2], o[3]>>)

\* ------------------------------------ host: Object.rotation_mode = value
\* The setter converts the rotation values to the new representation
\* (BKE_rotMode_change_values): the quaternion the object holds after its
\* mode is set to QUATERNION.
rotation_mode_set_unconverted(mode, eul, quat) == quat

rotation_mode_set(mode, eul, quat) ==
    IF mode = "QUATERNION" THEN quat ELSE EulToQuat(eul)

\* ------------------------------------------- OrientByNormalsOperator
\* for v in object.data.vertices: if v.select: normalAvg += v.normal
RECURSIVE SumSelected(_)
SumSelected(vs) ==
    IF vs = <<>> THEN ZeroVec
    ELSE IF Head(vs).select
    THEN VAdd(Head(vs).normal, SumSelected(Tail(vs)))
    ELSE SumSelected(Tail(vs))

\* The normal taken through the world matrix itself.
WorldNormalNaive(mode, eul, quat, scl, norm) ==
    MatVec(matrix_world(mode, eul, quat, scl), norm)

\* object.matrix_world.inverted().transposed().to_3x3() @ norm
WorldNormal(mode, eul, quat, scl, norm) ==
    MatVec(InvertedTransposed(matrix_world(mode, eul, quat, scl)), norm)

\* What execute raises, or "FINISHED".
ExecuteOutcome(vs, mode, eul, quat, scl) ==
    IF Len2(SumSelected(vs)) = 0 THEN "ZeroDivisionError"
    ELSE IF Det(matrix_world(mode, eul, quat, scl)) = 0 THEN "ValueError"
    ELSE "FINISHED"

\* The local rot of execute.
ExecuteRot(vs, mode, eul, quat, scl) ==
    rotation_difference(
        WorldNormal(mode, eul, quat, scl, CanonV(SumSelected(vs))), UpVec)

\* The product taken the other way round.
ComposeReversed(r, q) == CanonQ(QMul(q, r))

\* rot @ object.rotation_quaternion
ComposeRotation(r, q) == CanonQ(QMul(r, q))

\* poll: object mode only (the active object of the model always exists).
OrientPoll == context_mode = "OBJECT"

OrientByNormals ==
    /\ runs < MaxRuns
    /\ OrientPoll
    /\ runs' = runs + 1
    /\ result' = ExecuteOutcome(vertices, rotation_mode, rotation_euler,
                                rotation_quaternion, scale)
    /\ IF result' = "FINISHED"
       THEN /\ rot' = ExecuteRot(vertices, rotation_mode, rotation_euler,
                                 rotation_quaternion, scale)
            /\ rotation_mode' = "QUATERNION"
            /\ rotation_quaternion' =
                   ComposeRotation(rot', rotation_mode_set(rotation_mode, rotation_euler,
                                                           rotation_quaternion))
       ELSE UNCHANGED <<rot, rotation_mode, rotation_quaternion>>
    /\ UNCHANGED <<vertices, scale, rotation_euler, context_mode>>
    /\ UNCHANGED <<uvVars, sceneVars, bakeVars, cutVars>>

\* The user enters or leaves edit mode.
UserToggleEditMode ==
    /\ context_mode' = editmode_toggle(context_mode)
    /\ UNCHANGED <<orientVars, uvVars, sceneVars, bakeVars, cutVars, result, runs>>

\* ---------------------------------------------------------------- inputs
\* Vertex normals: unit vectors, of length 3 in grid steps.
Normals ==
    {<<0, 0, 3>>, <<0, 0, -3>>, <<-3, 0, 0>>, <<1, 2, 2>>, <<2, -2, -1>>, <<2, 2, 1>>}

VertexSet ==
    [normal : Normals, select : {TRUE}]
        \cup [normal : {<<0, 0, 3>>, <<1, 2, 2>>}, select : {FALSE}]

Meshes == UNION { [1..n -> VertexSet] : n \in 0..MaxVerts }

Scales == {<<1, 1, 1>>, <<2, 1, 1>>, <<1, 2, 2>>, <<-1, 1, 1>>, <<1, 1, 0>>}

\* The rotation an object starts with: (mode, euler, quaternion).
Rotations ==
    {<<"QUATERNION", <<0, 0, 0>>, q>> : q \in {IdentityQuat, <<1, 1, 0, 0>>, <<1, 1, 1, 1>>}}
        \cup {<<"XYZ", e, IdentityQuat>> : e \in {<<0, 0, 0>>, <<1, 0, 0>>, <<1, 2, 3>>}}

\* The inputs whose world normal has an integer length.
Representable(vs, r, scl) ==
    \/ ExecuteOutcome(vs, r[1], r[2], r[3], scl) # "FINISHED"
    \/ IsSquare(Len2(CanonV(WorldNormal(r[1], r[2], r[3], scl, CanonV(SumSelected(vs))))))

\* The state of what an operator does not touch.
IdleOrient ==
    /\ vertices = <<>>
    /\ scale = <<1, 1, 1>>
    /\ rotation_mode = "QUATERNION"
    /\ rotation_euler = <<0, 0, 0>>
    /\ rotation_quaternion = IdentityQuat
    /\ rot = NoQuat

IdleUV ==
    /\ vertex_count = 0
    /\ uv_projections = 0

IdleScene ==
    /\ objects = {}
    /\ selected = {}
    /\ active_object = NoObject

IdleBake ==
    /\ material_slots = <<>>
    /\ active_material_index = <<>>
    /\ materials = {}
    /\ images = {}
    /\ base_color = {}

IdleCut ==
    /\ modifiers = <<>>
    /\ applied = <<>>
    /\ display_type = <<>>
    /\ first_call = FALSE

InitOrient ==
    /\ vertices \in Meshes
    /\ scale \in Scales
    /\ \E r \in Rotations :
          /\ Representable(vertices, r, scale)
          /\ rotation_mode = r[1]
          /\ rotation_euler = r[2]
          /\ rotation_quaternion = r[3]
    /\ rot = NoQuat
    /\ context_mode \in {"OBJECT", "EDIT"}
    /\ IdleUV /\ IdleScene /\ IdleBake /\ IdleCut
    /\ result = "none"
    /\ runs = 0

NextOrient == OrientByNormals \/ UserToggleEditMode

SpecOrient == InitOrient /\ [][NextOrient]_vars


\* ------------------------------------------------- orientation: claims
AnySelected == \E i \in 1..Len(vertices) : vertices[i].select

\* The call that the step makes is a call of an operator.
IsCall == runs' = runs + 1

\* The squared length of the summed normal is below the squared epsilon.
BelowEpsilon == Len2(SumSelected(vertices)) < EpsGrid * EpsGrid

\* Transposed matrix (columns m) times vector.
MatTVec(m, v) == <<Dot(m[1], v), Dot(m[2], v), Dot(m[3], v)>>

\* The object's 3x3 world matrix, in the state before a step.
WorldMatrix == matrix_world(rotation_mode, rotation_euler, rotation_quaternion, scale)

\* w is the world-space averaged normal by the inverse-transpose rule,
\* normalised: the transposed world matrix takes it back onto the ray of the
\* summed local normal.
IsWorldNormal(w) ==
    /\ w = CanonV(w)
    /\ w # ZeroVec
    /\ CanonV(MatTVec(WorldMatrix, w)) = CanonV(SumSelected(vertices))

\* C1: a call on a mesh with no selected vertex ends with EmptySelectionError.
C1_EmptySelectionError ==
    [][(IsCall /\ ~AnySelected) => result' = "EmptySelectionError"]_vars

\* C2: a call on a non-empty selection whose summed normal is shorter than
\* the epsilon fails (does not return FINISHED) and computes no rotation.
C2_DegenerateFails ==
    [][(IsCall /\ AnySelected /\ BelowEpsilon)
          => (result' # "FINISHED" /\ rot' = rot)]_vars

\* C3: a call on an empty or degenerate selection leaves rotation_mode and
\* rotation_quaternion as they were and does not return FINISHED.
C3_NoRotationOnError ==
    [][(IsCall /\ (~AnySelected \/ BelowEpsilon))
          => /\ rotation_mode' = rotation_mode
             /\ rotation_quaternion' = rotation_quaternion
             /\ result' # "FINISHED"]_vars

\* C4: for a selection whose normals do not cancel and an invertible world
\* matrix the call finishes, and the rotation it computes takes the
\* world-space averaged normal (inverse-transpose rule) onto (0,0,1).
C4_RotationAlignsUp ==
    [][(IsCall /\ SumSelected(vertices) # ZeroVec /\ Det(WorldMatrix) # 0)
          => /\ result' = "FINISHED"
             /\ \E w \in {QRot(QConj(rot'), UpVec)} :
                   /\ IsWorldNormal(w)
                   /\ QRot(rot', w) = UpVec]_vars

C4_Witness ==
    /\ runs = 1
    /\ result = "FINISHED"
    /\ scale = <<1, 2, 2>>
    /\ SumSelected(vertices) = <<2, 2, 4>>
    /\ QRot(QConj(rot), UpVec) = <<2, 1, 2>>

Basis == {<<1, 0, 0>>, <<0, 1, 0>>, <<0, 0, 1>>}

\* C5: after a finished call the object is in quaternion mode and its
\* orientation is the computed rotation applied after the orientation it had
\* before the call, whichever representation held that orientation.
C5_ComposesWithPrior ==
    [][(IsCall /\ result' = "FINISHED")
          => /\ rotation_mode' = "QUATERNION"
             /\ \A e \in Basis :
                   QRot(rotation_quaternion', e) =
                       QRot(rot', CanonV(ObjRotRaw(rotation_mode, rotation_euler,
                                                   rotation_quaternion, e)))]_vars

C5_Witness ==
    /\ runs = 1
    /\ result = "FINISHED"
    /\ rotation_euler = <<1, 2, 3>>
    /\ rotation_mode = "QUATERNION"
    /\ rot # IdentityQuat
    /\ rotation_quaternion # rot

\* C6: a call after a finished call computes the identity rotation and leaves
\* the object's rotation as it is.
C6_SecondRunIdentity ==
    [][(IsCall /\ runs >= 1 /\ result = "FINISHED")
          => /\ result' = "FINISHED"
             /\ rot' = IdentityQuat
             /\ rotation_mode' = rotation_mode
             /\ rotation_quaternion' = rotation_quaternion]_vars

C6_Witness ==
    /\ runs = 2
    /\ result = "FINISHED"
    /\ rot = IdentityQuat
    /\ rotation_euler = <<1, 2, 3>>
    /\ scale = <<1, 2, 2>>
    /\ SumSelected(vertices) = <<2, 2, 4>>

\* C7: when the world-space averaged normal is (0,0,-1), the computed rotation
\* is a half turn about an axis perpendicular to (0,0,1) and takes (0,0,-1)
\* onto (0,0,1).
C7_AntiParallelHalfTurn ==
    [][(IsCall /\ result' = "FINISHED" /\ IsWorldNormal(<<0, 0, -1>>))
          => /\ rot'[1] = 0
             /\ rot'[4] = 0
             /\ rot' # NoQuat
             /\ QRot(rot', <<0, 0, -1>>) = UpVec]_vars

C7_Witness ==
    /\ runs = 1
    /\ result = "FINISHED"
    /\ vertices = <<[normal |-> <<0, 0, -3>>, select |-> TRUE]>>
    /\ scale = <<1, 1, 1>>
    /\ rotation_quaternion = <<0, -1, -1, 0>>
    /\ rot = <<0, -1, -1, 0>>


\* ------------------------------------------------------ CustomUVOperator
\* The vertex count the smart projection is guarded by.
VertexLimit == 40000

\* Vertex counts are taken up to this far on either side of VertexLimit.
Margin == 12

UVPoll == active_object # NoObject

\* if len(lowPoly.data.vertices) < 40000
UVGuard(n) == n < VertexLimit

CustomUV ==
    /\ runs < MaxRuns
    /\ UVPoll
    /\ runs' = runs + 1
    /\ IF UVGuard(vertex_count)
       THEN /\ uv_projections' = uv_projections + 1
            /\ context_mode' = editmode_toggle(mode_set("EDIT"))
       ELSE UNCHANGED <<uv_projections, context_mode>>
    /\ result' = "FINISHED"
    /\ UNCHANGED <<vertex_count, orientVars, sceneVars, bakeVars, cutVars>>

VertexCounts == {0, 1} \cup ((VertexLimit - Margin)..(VertexLimit + Margin))

InitUV ==
    /\ vertex_count \in VertexCounts
    /\ uv_projections = 0
    /\ context_mode \in {"OBJECT", "EDIT"}
    /\ objects = {1}
    /\ selected \in SUBSET objects
    /\ active_object = 1
    /\ IdleOrient /\ IdleBake /\ IdleCut
    /\ result = "none"
    /\ runs = 0

NextUV == CustomUV \/ UserToggleEditMode

SpecUV == InitUV /\ [][NextUV]_vars

\* C8: a call runs the projection, and ends in object mode, when the object
\* has at most 40000 vertices; above 40000 it runs nothing and leaves the mode;
\* either way it returns FINISHED.
C8_SkipsAboveLimit ==
    [][IsCall
          => /\ result' = "FINISHED"
             /\ IF vertex_count <= 40000
                THEN uv_projections' = uv_projections + 1 /\ context_mode' = "OBJECT"
                ELSE uv_projections' = uv_projections /\ context_mode' = context_mode]_vars


\* ------------------------------------------------- host: scene and slots
\* Largest number of material slots an object starts with.
MaxSlots == 2

RECURSIVE SortedSeq(_)
SortedSeq(S) ==
    IF S = {} THEN <<>>
    ELSE LET m == CHOOSE x \in S : \A y \in S : x <= y
         IN  <<m>> \o SortedSeq(S \ {m})

\* context.selected_objects: the selected objects in scene order.
selected_objects(sel) == SortedSeq(sel)

\* The sequence without its element at index i (from 1).
RemoveAt(seq, i) == [j \in 1..(Len(seq) - 1) |-> IF j < i THEN seq[j] ELSE seq[j + 1]]

\* bpy.ops.object.material_slot_remove(): removes the active slot of the
\* object ob; with no slot it does nothing.  Gives <<slots, active index>>.
material_slot_remove(slots, index, ob) ==
    IF ob \notin DOMAIN slots \/ Len(slots[ob]) = 0 THEN <<slots, index>>
    ELSE LET rest == RemoveAt(slots[ob], index[ob] + 1)
             top == IF Len(rest) = 0 THEN 0 ELSE Len(rest) - 1
         IN  << [slots EXCEPT ![ob] = rest],
                [index EXCEPT ![ob] = IF index[ob] > top THEN top ELSE index[ob]] >>

\* bpy.data.materials.new(name): the name is made unique by a suffix.
NewMaterial(name, mats) == <<name, Cardinality({m \in mats : m[1] = name})>>

\* --------------------------------------------------- CustomBakeOperator
BakePoll == active_object # NoObject /\ Cardinality(selected) = 2

\* for i in range(len(lowPoly.material_slots)): material_slot_remove()
\* The operator called acts on the active object.
RECURSIVE RemoveSlots(_, _, _, _)
RemoveSlots(n, slots, index, ob) ==
    IF n = 0 THEN <<slots, index>>
    ELSE LET r == material_slot_remove(slots, index, ob)
         IN  RemoveSlots(n - 1, r[1], r[2], ob)

\* The object whose slots the loop of execute removes.
RemovalTarget(lowPoly, active) == active

CustomBake ==
    /\ runs < MaxRuns
    /\ BakePoll
    /\ runs' = runs + 1
    /\ LET highPoly == selected_objects(selected)[1]
           lowPoly == selected_objects(selected)[2]
           removed == RemoveSlots(Len(material_slots[lowPoly]), material_slots,
                                  active_material_index,
                                  RemovalTarget(lowPoly, active_object))
           mat == NewMaterial("LowPoly_Material", materials)
           img == <<"LowPoly", Cardinality(images)>>
       IN  /\ materials' = materials \cup {mat}
           /\ material_slots' =
                  [removed[1] EXCEPT ![lowPoly] = Append(removed[1][lowPoly], mat)]
           /\ active_material_index' = removed[2]
           /\ images' = images \cup {img}
           /\ selected' = {lowPoly, highPoly}
           /\ active_object' = lowPoly
           /\ base_color' = base_color \cup {<<img, mat>>}
    /\ result' = "FINISHED"
    /\ UNCHANGED <<objects, orientVars, context_mode, uvVars, cutVars>>

\* The user makes another object the active one.
UserSetActive ==
    /\ \E o \in objects : o # active_object /\ active_object' = o
    /\ UNCHANGED <<objects, selected, orientVars, context_mode, uvVars, bakeVars,
                   cutVars, result, runs>>

StartMaterials == {<<"Material", 0>>, <<"Material", 1>>}

SlotSeqs == UNION { [1..n -> StartMaterials] : n \in 0..MaxSlots }

InitBake ==
    /\ objects = {1, 2, 3}
    /\ selected = {1, 2}
    /\ active_object \in objects
    /\ material_slots \in [objects -> SlotSeqs]
    /\ active_material_index \in [objects -> 0..(MaxSlots - 1)]
    /\ \A o \in objects :
          active_material_index[o] <= (IF Len(material_slots[o]) = 0 THEN 0
                                       ELSE Len(material_slots[o]) - 1)
    /\ materials = StartMaterials
    /\ images = {}
    /\ base_color = {}
    /\ IdleOrient /\ IdleUV /\ IdleCut
    /\ context_mode = "OBJECT"
    /\ result = "none"
    /\ runs = 0

NextBake == CustomBake \/ UserSetActive

SpecBake == InitBake /\ [][NextBake]_vars

\* C9: a call made with the high-poly (first selected) or the low-poly (second
\* selected) object active leaves the low-poly object with one material, the
\* new one, and the high-poly object's slots as they were.
C9_RemovesOnlyLowPolyMaterials ==
    [][(IsCall /\ active_object \in selected)
          => /\ Len(material_slots'[selected_objects(selected)[2]]) = 1
             /\ material_slots'[selected_objects(selected)[2]][1] \notin materials
             /\ material_slots'[selected_objects(selected)[1]] =
                    material_slots[selected_objects(selected)[1]]]_vars


\* ------------------------------------------------------ CubeCutOperator
\* Largest number of objects in the scene.
MaxObjects == 4

CubeCutPoll == active_object # NoObject

\* Names of the modifiers of a stack.
ModifierNames(stack) == {stack[i].name : i \in 1..Len(stack)}

\* modifiers.new(name, type): the name is made unique by a suffix.
UniqueModifierName(name, stack) ==
    IF name \notin ModifierNames(stack) THEN name ELSE name \o ".001"

\* bpy.ops.object.modifier_apply(modifier=name) on the object ob: the first
\* modifier of that name leaves the stack and acts on the mesh.
\* Gives <<modifiers, applied>>.
modifier_apply(mods, appl, ob, name) ==
    LET i == CHOOSE k \in 1..Len(mods[ob]) :
                 /\ mods[ob][k].name = name
                 /\ \A j \in 1..(k - 1) : mods[ob][j].name # name
        m == mods[ob][i]
    IN  << [mods EXCEPT ![ob] = RemoveAt(mods[ob], i)],
           [appl EXCEPT ![ob] = Append(appl[ob],
                                       [operation |-> m.operation, object |-> m.object])] >>

\* The function f without the objects outside dom.
Restrict(f, dom) == [o \in dom |-> f[o]]

\* bpy.ops.mesh.primitive_cube_add(): a new object, which becomes the only
\* selected object and the active one.
AddBoundsCube ==
    /\ Cardinality(objects) < MaxObjects
    /\ LET cube == (CHOOSE m \in objects : \A o \in objects : o <= m) + 1
       IN  /\ objects' = objects \cup {cube}
           /\ selected' = {cube}
           /\ active_object' = cube
           /\ modifiers' = [o \in objects' |-> IF o = cube THEN <<>> ELSE modifiers[o]]
           /\ applied' = [o \in objects' |-> IF o = cube THEN <<>> ELSE applied[o]]
           /\ display_type' =
                  [o \in objects' |-> IF o = cube THEN "BOUNDS" ELSE display_type[o]]
    /\ result' = "FINISHED"

\* The first selected object, whichever object is active.
CutterFirstSelected(sel, highPoly) == selected_objects(sel)[1]

\* The cutter of execute: the first selected object, or the second when the
\* first is the active object.
Cutter(sel, highPoly) ==
    IF selected_objects(sel)[1] = highPoly
    THEN selected_objects(sel)[2]
    ELSE selected_objects(sel)[1]

CutObject ==
    IF Cardinality(selected) # 2
    THEN /\ result' = "CANCELLED"
         /\ UNCHANGED <<sceneVars, modifiers, applied, display_type>>
    ELSE LET cube == Cutter(selected, active_object)
             highPoly == active_object
             boolMod == [name |-> UniqueModifierName("BoolCut", modifiers[highPoly]),
                         operation |-> "INTERSECT", solver |-> "FAST", object |-> cube]
             added == [modifiers EXCEPT ![highPoly] = Append(modifiers[highPoly], boolMod)]
             done == modifier_apply(added, applied, highPoly, "BoolCut")
         IN  \* select_all(DESELECT), cube.select_set(True), delete()
             /\ objects' = objects \ {cube}
             /\ selected' = {}
             /\ active_object' = active_object
             /\ modifiers' = Restrict(done[1], objects')
             /\ applied' = Restrict(done[2], objects')
             /\ display_type' = Restrict(display_type, objects')
             /\ result' = "FINISHED"

CubeCut ==
    /\ runs < MaxRuns
    /\ CubeCutPoll
    /\ runs' = runs + 1
    /\ \E fc \in BOOLEAN :
          /\ first_call' = fc
          /\ IF fc THEN AddBoundsCube ELSE CutObject
    /\ UNCHANGED <<orientVars, context_mode, uvVars, bakeVars>>

\* The user selects or deselects an object.
UserSelect ==
    /\ \E o \in objects :
          selected' = IF o \in selected THEN selected \ {o} ELSE selected \cup {o}
    /\ UNCHANGED <<objects, active_object, orientVars, context_mode, uvVars, bakeVars,
                   cutVars, result, runs>>

InitCut ==
    /\ objects \in {{1}, {1, 2}, {1, 2, 3}}
    /\ selected \in SUBSET objects
    /\ active_object \in objects \cup {NoObject}
    /\ modifiers = [o \in objects |-> <<>>]
    /\ applied = [o \in objects |-> <<>>]
    /\ display_type = [o \in objects |-> "TEXTURED"]
    /\ first_call = FALSE
    /\ IdleOrient /\ IdleUV /\ IdleBake
    /\ context_mode = "OBJECT"
    /\ result = "none"
    /\ runs = 0

NextCut == CubeCut \/ UserSelect \/ UserSetActive

SpecCut == InitCut /\ [][NextCut]_vars

\* C10: a Cut Object call with two selected objects applies an intersection
\* to the active object with a selected object other than the active one as
\* cutter, deletes that cutter and keeps the active object; with another
\* number of selected objects it returns CANCELLED and changes nothing.
C10_CutKeepsActive ==
    [][(IsCall /\ first_call' = FALSE)
          => IF Cardinality(selected) = 2
             THEN \E cutter \in selected \ {active_object} :
                     /\ active_object \in selected => selected = {active_object, cutter}
                     /\ result' = "FINISHED"
                     /\ objects' = objects \ {cutter}
                     /\ active_object' = active_object
                     /\ active_object \in objects'
                     /\ modifiers'[active_object] = modifiers[active_object]
                     /\ applied'[active_object] =
                            Append(applied[active_object],
                                   [operation |-> "INTERSECT", object |-> cutter])
                     /\ \A o \in objects' \ {active_object} :
                            modifiers'[o] = modifiers[o] /\ applied'[o] = applied[o]
             ELSE /\ result' = "CANCELLED"
                  /\ UNCHANGED <<objects, selected, active_object, modifiers, applied,
                                 display_type>>]_vars

C10_Witness ==
    /\ runs = 2
    /\ first_call = FALSE
    /\ result = "FINISHED"
    /\ objects = {1}
    /\ active_object = 1
    /\ modifiers[1] = <<>>
    /\ applied[1] = <<[operation |-> "INTERSECT", object |-> 2]>>

=============================================================================
